---- MODULE Spec2Model ----
(***************************************************************************)
(* Model of the two pygame visualizations of the repository:               *)
(*   src/ele.py          GeometryViz      (Euclidean & affine planes)      *)
(*   src/ℝ²confusion.py  CrossSectionViz  (cross-sections of curves)       *)
(* Each run() loop is a state machine stepped by a program counter:        *)
(*   tick -> events -> mouse -> draw -> tick ... -> done                   *)
(*                                                                         *)
(* Numbers.  Python floats are modelled in fixed point:                    *)
(*   - coordinates handed to to_screen are in units of 1/Scale pixel;      *)
(*   - time is in milliseconds (clock.tick returns whole milliseconds);    *)
(*   - pulse_phase is in units of 1/1000, rotation_angle in 1/2000;        *)
(*   - sines, cosines, the shear factor and the slice parameters are in    *)
(*     units of 1/Micro.                                                   *)
(* int() is truncation toward zero, // is floor division.                  *)
(***************************************************************************)
EXTENDS Integers, Sequences, FiniteSets, TLC

\* ------------------------------------------------------------------ bounds
MaxFrames == 4
CSMaxFrames == 2
MaxEvents == 2
MaxCoordIdx == 6
CoordStep == 97
MaxRadius == 120
MaxSliceSteps == 2

\* ------------------------------------------------------- program constants
WIDTH == 900
HEIGHT == 600
FPS == 60
HitRadius == 15
PerpHalfLength == 80
FieldSize == 11

Scale == 10 * 100
Micro == 1000 * 1000
LenScale == 4 * 4

None == "None"
Names == {"A", "B", "C", "D"}

\* ---------------------------------------------------------------- helpers
Abs(a) == IF a >= 0 THEN a ELSE -a

\* Python int(): truncation toward zero of a / b (b > 0)
IntTrunc(a, b) == IF a >= 0 THEN a \div b ELSE -((-a) \div b)

\* an integer of the program as a fixed-point coordinate
Fx(v) == v * Scale

RECURSIVE ISqrtSearch(_, _, _)
ISqrtSearch(n, lo, hi) ==
    IF lo >= hi THEN lo
    ELSE LET mid == (lo + hi + 1) \div 2
         IN  IF mid * mid <= n THEN ISqrtSearch(n, mid, hi)
                               ELSE ISqrtSearch(n, lo, mid - 1)

\* floor of math.sqrt(n) for 0 <= n < 2^31
ISqrt(n) == ISqrtSearch(n, 0, 46340)

\* math.sin(x), x and the result in 1/Micro (third-order Taylor polynomial;
\* the model keeps |x| below 1 radian)
SinMicro(x) == x - IntTrunc((x \div 1000) * (x \div 1000) * (x \div 1000), 6000)

\* math.cos(x), x and the result in 1/Micro (second-order Taylor polynomial)
CosMicro(x) == Micro - ((x \div 1000) * (x \div 1000)) \div 2

\* ------------------------------------------------- dict (insertion ordered)
\* A Python dict is a sequence of <<key, value>> pairs in insertion order.
DictKeys(d) == [i \in 1..Len(d) |-> d[i][1]]
DictKeySet(d) == {d[i][1] : i \in 1..Len(d)}
DictGet(d, k) == LET i == CHOOSE j \in 1..Len(d) : d[j][1] = k IN d[i][2]
DictSetAppend(d, k, v) == Append(d, <<k, v>>)

\* d[k] = v : an existing key keeps its place, a new key is appended
DictSet(d, k, v) ==
    IF k \in DictKeySet(d)
    THEN [i \in 1..Len(d) |-> IF d[i][1] = k THEN <<k, v>> ELSE d[i]]
    ELSE Append(d, <<k, v>>)

\* ------------------------------------------------------- coordinate mapper
\* x, y in 1/Scale units (floats of the program); result in whole pixels
to_screen(x, y) ==
    << IntTrunc((WIDTH * Scale) \div 2 + x, Scale),
       IntTrunc((HEIGHT * Scale) \div 2 - y, Scale) >>

to_math_unflipped(screen_x, screen_y) ==
    << screen_x - WIDTH \div 2, screen_y - HEIGHT \div 2 >>

to_math(screen_x, screen_y) ==
    << screen_x - WIDTH \div 2, HEIGHT \div 2 - screen_y >>

\* screen position of a stored (integer) point
ScreenOf(pos) == to_screen(Fx(pos[1]), Fx(pos[2]))

\* ------------------------------------------------------- geometry samplers
\* draw_euclidean_elements, lines 148-161: the perpendicular segment through
\* the midpoint of A and B, as <<perp_start, perp_end>> in 1/Scale units, or
\* <<>> when the guard "length > 0" fails.  length is in 1/LenScale units.
PerpLength(A, B) ==
    LET dx == B[1] - A[1]
        dy == B[2] - A[2]
    IN  ISqrt((dx * dx + dy * dy) * LenScale * LenScale)

PerpDirectionUnrotated(A, B) ==
    LET dx == B[1] - A[1]
        dy == B[2] - A[2]
        length == PerpLength(A, B)
    IN  << IntTrunc(dx * PerpHalfLength * Scale * LenScale, length),
           IntTrunc(dy * PerpHalfLength * Scale * LenScale, length) >>

PerpDirection(A, B) ==
    LET dx == B[1] - A[1]
        dy == B[2] - A[2]
        length == PerpLength(A, B)
    IN  << IntTrunc(-dy * PerpHalfLength * Scale * LenScale, length),
           IntTrunc(dx * PerpHalfLength * Scale * LenScale, length) >>

\* mid_x, mid_y in 1/Scale units
Midpoint(A, B) ==
    << ((A[1] + B[1]) * Scale) \div 2, ((A[2] + B[2]) * Scale) \div 2 >>

PerpSegmentDegenerate(A, B) ==
    LET mid == Midpoint(A, B)
        perp == IF PerpLength(A, B) > 0 THEN PerpDirection(A, B)
                                        ELSE <<0, 0>>
    IN  << <<mid[1] + perp[1], mid[2] + perp[2]>>,
           <<mid[1] - perp[1], mid[2] - perp[2]>> >>

PerpSegment(A, B) ==
    IF PerpLength(A, B) > 0
    THEN LET mid == Midpoint(A, B)
             perp == PerpDirection(A, B)
         IN  << <<mid[1] + perp[1], mid[2] + perp[2]>>,
                <<mid[1] - perp[1], mid[2] - perp[2]>> >>
    ELSE << >>

\* draw_affine_elements, line 190: 0.3 * math.sin(self.time * 0.5), in
\* 1/Micro units; t in milliseconds
ShearFactor(t) == (3 * SinMicro(t * 500)) \div 10

\* lines 192-195: the sheared image of an integer point, on screen
ShearPoint(k, point) ==
    to_screen(Fx(point[1]) + IntTrunc(k * point[2], Micro \div Scale),
              Fx(point[2]))

\* ------------------------------------------------------------ GeometryViz
\* pc is the position in run(); frame_no counts the ticks; n_events counts
\* the events handled in the current frame; event is the loop variable of
\* the event loop; mouse_pos and mouse_pressed are the locals of run();
\* mouse_branch and reset_seen record, for the current frame, the branch
\* handle_mouse took and whether K_r was handled.
\* The display surface is only written, never read back: what a frame shows
\* is the function Rendered of the state at pc = "draw".
VARIABLES pc, running, frame_no, n_events, event,
          mode, show_grid, animate, time, pulse_phase, rotation_angle,
          points, dragging, drag_offset,
          mouse_pos, mouse_pressed, mouse_branch, reset_seen

gvars == << pc, running, frame_no, n_events, event,
            mode, show_grid, animate, time, pulse_phase, rotation_angle,
            points, dragging, drag_offset,
            mouse_pos, mouse_pressed, mouse_branch, reset_seen >>

\* -------------------------------------------------------- CrossSectionViz
\* cs_nudged is 2 in the frame in which an arrow key was handled, 1 in the
\* frame after it, else 0.
VARIABLES cs_pc, cs_running, cs_frame_no, cs_n_events, cs_event, cs_nudged,
          view_mode, cs_time, show_projections, show_hidden_dims, cs_animate,
          slice_real_im, slice_imaginary, radius

csvars == << cs_pc, cs_running, cs_frame_no, cs_n_events, cs_event,
             cs_nudged, view_mode, cs_time, show_projections, show_hidden_dims,
             cs_animate, slice_real_im, slice_imaginary, radius >>

\* ------------------------------------- pure functions applied to an input
VARIABLES fn_pc, fn_in, fn_out

fnvars == << fn_pc, fn_in, fn_out >>

\* no function is being applied
FnIdle == fn_pc = "idle" /\ fn_in = << >> /\ fn_out = << >>

vars == << gvars, csvars, fnvars >>

GeometryMode == {"EUCLIDEAN", "AFFINE", "BOTH"}

\* the events pygame.event.get() can deliver: QUIT, the bound keys, and
\* anything else (another key, mouse motion, ...)
EventKinds == {"QUIT", "K_e", "K_a", "K_b", "K_g", "K_SPACE", "K_r", "OTHER"}

\* values clock.tick(FPS) returns at 60 frames per second, in milliseconds
TickMillis == {1000 \div FPS, 1000 \div FPS + 1}

\* pointer positions pygame.mouse.get_pos() is sampled at: on A, near A
\* (off-centre), on B, and on empty canvas
MousePositions == { <<330, 380>>, <<335, 383>>, <<600, 180>>, <<100, 100>> }

\* __init__, lines 46-51
InitPoints ==
    << <<"A", <<-120, -80>> >>, <<"B", <<150, 120>> >>,
       <<"C", <<-80, 150>> >>, <<"D", <<120, -120>> >> >>

ResetPointsTypo ==
    << <<"A", <<-120, -80>> >>, <<"B", <<150, 120>> >>,
       <<"C", <<-80, 150>> >>, <<"D", <<120, -100>> >> >>

\* run, lines 309-314 (the reset command)
ResetPoints ==
    << <<"A", <<-120, -80>> >>, <<"B", <<150, 120>> >>,
       <<"C", <<-80, 150>> >>, <<"D", <<120, -120>> >> >>

\* handle_mouse, lines 264-267: is the point within the hit radius of the
\* pointer (math.sqrt(d2) < 15 for an integer d2 is d2 < 15 * 15)
InHit(pos, m) ==
    LET s == ScreenOf(pos)
    IN  (m[1] - s[1]) * (m[1] - s[1]) + (m[2] - s[2]) * (m[2] - s[2])
            < HitRadius * HitRadius

RECURSIVE LastHit(_, _, _)
LastHit(d, i, m) ==
    IF i > Len(d) THEN 0
    ELSE LET later == LastHit(d, i + 1, m)
         IN  IF later # 0 THEN later
             ELSE IF InHit(d[i][2], m) THEN i ELSE 0

\* handle_mouse, lines 263-271: index of the first item of the dict within
\* the hit radius, 0 when there is none
RECURSIVE FirstHit(_, _, _)
FirstHit(d, i, m) ==
    IF i > Len(d) THEN 0
    ELSE IF InHit(d[i][2], m) THEN i
    ELSE FirstHit(d, i + 1, m)

\* handle_mouse, lines 269-270
CaptureOffset(pos, m) ==
    LET s == ScreenOf(pos) IN <<m[1] - s[1], m[2] - s[2]>>

DragUpdateFirstKey(d, drg, off, m) ==
    DictSet(d, d[1][1], to_math(m[1] - off[1], m[2] - off[2]))

DragUpdateNoOffset(d, drg, off, m) ==
    DictSet(d, drg, to_math(m[1], m[2]))

\* handle_mouse, lines 273-276: the dict after the dragged point is moved
DragUpdate(d, drg, off, m) ==
    DictSet(d, drg, to_math(m[1] - off[1], m[2] - off[2]))

ReleaseDragKept(drg) == drg

\* handle_mouse, line 278
ReleaseDrag(drg) == None

\* handle_mouse, lines 258-278
handle_mouse(d, drg, off, m, pressed) ==
    IF pressed
    THEN IF drg = None
         THEN LET i == FirstHit(d, 1, m)
              IN  IF i = 0
                  THEN [points |-> d, dragging |-> drg, drag_offset |-> off,
                        branch |-> "miss"]
                  ELSE [points |-> d, dragging |-> d[i][1],
                        drag_offset |-> CaptureOffset(d[i][2], m),
                        branch |-> "start"]
         ELSE [points |-> DragUpdate(d, drg, off, m), dragging |-> drg,
               drag_offset |-> off, branch |-> "update"]
    ELSE [points |-> d, dragging |-> ReleaseDrag(drg), drag_offset |-> off,
          branch |-> "release"]

AdvancePulseSkipped(p, dt) == p

\* run, lines 288-290: the animated parameters after a tick of dt ms
AdvancePulse(p, dt) == p + dt * 3
AdvanceRotation(r, dt) == r + dt

\* what the frame rendered from the current state shows (lines 322-330)
Rendered ==
    [ grid     |-> show_grid,
      points   |-> points,
      dragged  |-> dragging,
      pulse    |-> pulse_phase,
      perp     |-> IF mode = "AFFINE" THEN << >>
                   ELSE LET seg == PerpSegment(DictGet(points, "A"),
                                               DictGet(points, "B"))
                        IN  IF seg = << >> THEN << >>
                            ELSE << to_screen(seg[1][1], seg[1][2]),
                                    to_screen(seg[2][1], seg[2][2]) >>,
      shear    |-> IF mode = "EUCLIDEAN" THEN << >>
                   ELSE LET k == ShearFactor(time)
                        IN  << k, ShearPoint(k, DictGet(points, "A")),
                                  ShearPoint(k, DictGet(points, "B")),
                                  ShearPoint(k, DictGet(points, "C")) >> ]

\* GeometryViz.__init__, lines 32-63
GInit ==
    /\ pc = "tick"
    /\ running = TRUE
    /\ frame_no = 0
    /\ n_events = 0
    /\ event = "none"
    /\ mode = "BOTH"
    /\ show_grid = TRUE
    /\ animate = TRUE
    /\ time = 0
    /\ pulse_phase = 0
    /\ rotation_angle = 0
    /\ points = InitPoints
    /\ dragging = None
    /\ drag_offset = <<0, 0>>
    /\ mouse_pos = <<0, 0>>
    /\ mouse_pressed = FALSE
    /\ mouse_branch = "none"
    /\ reset_seen = FALSE

\* the program is not running
GIdle ==
    /\ pc = "idle"
    /\ running = FALSE
    /\ frame_no = 0
    /\ n_events = 0
    /\ event = "none"
    /\ mode = "BOTH"
    /\ show_grid = TRUE
    /\ animate = TRUE
    /\ time = 0
    /\ pulse_phase = 0
    /\ rotation_angle = 0
    /\ points = InitPoints
    /\ dragging = None
    /\ drag_offset = <<0, 0>>
    /\ mouse_pos = <<0, 0>>
    /\ mouse_pressed = FALSE
    /\ mouse_branch = "none"
    /\ reset_seen = FALSE

\* run, lines 284-290: frame pacing, elapsed time, animation advance
Tick ==
    /\ pc = "tick"
    /\ frame_no < MaxFrames
    /\ \E dt \in TickMillis :
          /\ time' = time + dt
          /\ pulse_phase' = IF animate THEN AdvancePulse(pulse_phase, dt)
                                       ELSE pulse_phase
          /\ rotation_angle' = IF animate
                               THEN AdvanceRotation(rotation_angle, dt)
                               ELSE rotation_angle
    /\ frame_no' = frame_no + 1
    /\ pc' = "events"
    /\ UNCHANGED << running, n_events, event, mode, show_grid, animate,
                    points, dragging, drag_offset, mouse_pos, mouse_pressed,
                    mouse_branch, reset_seen >>
    /\ UNCHANGED << csvars, fnvars >>

RunningAfterLast(r, e) == (e # "QUIT")

\* run, lines 294-295: the loop flag after an event
RunningAfter(r, e) == IF e = "QUIT" THEN FALSE ELSE r

ModeAfterKeyNoBoth(m, e) ==
    CASE e = "K_e" -> "EUCLIDEAN"
      [] e = "K_a" -> "AFFINE"
      [] e = "K_b" -> "AFFINE"
      [] OTHER -> m

\* run, lines 297-302: the mode after an event
ModeAfterKey(m, e) ==
    CASE e = "K_e" -> "EUCLIDEAN"
      [] e = "K_a" -> "AFFINE"
      [] e = "K_b" -> "BOTH"
      [] OTHER -> m

\* run, lines 293-314: one iteration of the event loop
HandleEvent ==
    /\ pc = "events"
    /\ n_events < MaxEvents
    /\ n_events' = n_events + 1
    /\ \E e \in EventKinds :
          /\ event' = e
          /\ running' = RunningAfter(running, e)
          /\ mode' = ModeAfterKey(mode, e)
          /\ show_grid' = IF e = "K_g" THEN ~show_grid ELSE show_grid
          /\ animate' = IF e = "K_SPACE" THEN ~animate ELSE animate
          /\ points' = IF e = "K_r" THEN ResetPoints ELSE points
          /\ reset_seen' = (reset_seen \/ e = "K_r")
    /\ UNCHANGED << pc, frame_no, time, pulse_phase, rotation_angle,
                    dragging, drag_offset, mouse_pos, mouse_pressed,
                    mouse_branch >>
    /\ UNCHANGED << csvars, fnvars >>

\* run, line 293: the event loop runs out of polled events
EndEvents ==
    /\ pc = "events"
    /\ pc' = "mouse"
    /\ n_events' = 0
    /\ event' = "none"
    /\ UNCHANGED << running, frame_no, mode, show_grid, animate,
                    time, pulse_phase, rotation_angle, points, dragging,
                    drag_offset, mouse_pos, mouse_pressed, mouse_branch,
                    reset_seen >>
    /\ UNCHANGED << csvars, fnvars >>

\* run, lines 317-319
HandleMouse ==
    /\ pc = "mouse"
    /\ \E m \in MousePositions, b \in BOOLEAN :
          LET r == handle_mouse(points, dragging, drag_offset, m, b)
          IN  /\ mouse_pos' = m
              /\ mouse_pressed' = b
              /\ points' = r.points
              /\ dragging' = r.dragging
              /\ drag_offset' = r.drag_offset
              /\ mouse_branch' = r.branch
    /\ pc' = "draw"
    /\ UNCHANGED << running, frame_no, n_events, event, mode, show_grid,
                    animate, time, pulse_phase, rotation_angle, reset_seen >>
    /\ UNCHANGED << csvars, fnvars >>

\* run, lines 322-333: render and present the frame, then loop or exit
\* (the frame's locals mouse_pos and mouse_pressed, and the per-frame history
\* flags, are dead after the frame and are cleared)
Draw ==
    /\ pc = "draw"
    /\ pc' = IF running THEN "tick" ELSE "done"
    /\ mouse_pos' = <<0, 0>>
    /\ mouse_pressed' = FALSE
    /\ mouse_branch' = "none"
    /\ reset_seen' = FALSE
    /\ UNCHANGED << running, frame_no, n_events, event, mode, show_grid,
                    animate, time, pulse_phase, rotation_angle, points,
                    dragging, drag_offset >>
    /\ UNCHANGED << csvars, fnvars >>

\* -------------------------------------------------------- CrossSectionViz
CS_WIDTH == 1200
CS_HEIGHT == 800
LatticeSpacing == 15
DefaultRadius == 80

ViewMode == {"REAL_PLANE", "COMPLEX_PROJECTION", "FOUR_D_SLICES",
             "MULTI_FIELD"}

CSEventKinds == {"QUIT", "K_1", "K_2", "K_3", "K_4", "K_UP", "K_DOWN",
                 "K_LEFT", "K_RIGHT", "K_p", "K_h", "K_a", "OTHER"}

\* the increment 0.1 of lines 353-359, in 1/Micro units
SliceStep == Micro \div 10

\* the slice parameters the model lets the arrow keys reach
SliceCap == (3 * Micro) \div 10 + MaxSliceSteps * SliceStep

\* to_screen of CrossSectionViz, lines 71-75 (x, y in 1/Scale units)
cs_to_screen(x, y, offset_x, offset_y) ==
    << IntTrunc((CS_WIDTH \div 2 + offset_x) * Scale + x, Scale),
       IntTrunc((CS_HEIGHT \div 2 + offset_y) * Scale - y, Scale) >>

\* range(a, b)
PyRange(a, b) == [i \in 1..(b - a) |-> a + i - 1]

LatticeRangeShort == PyRange(-2, 2)

\* lines 276-277: the lattice range of both loops
LatticeRange == PyRange(-2, 3)

\* line 278: the membership test of the finite-field sampler
FieldTest(x, y, r) ==
    (x * x + y * y) % FieldSize = (r \div 10) % FieldSize

\* lines 276-280: the lattice points the sampler emits, in loop order
FiniteFieldPoints(r) ==
    LET n == Len(LatticeRange)
        cells == [k \in 1..(n * n) |->
                     << LatticeRange[(k - 1) \div n + 1],
                        LatticeRange[((k - 1) % n) + 1] >>]
        Keep(c) == FieldTest(c[1], c[2], r)
    IN  SelectSeq(cells, Keep)

\* lines 336-337: the time-derived slice parameters, t in milliseconds
SliceRealIm(t) == (3 * SinMicro(t * 500)) \div 10
SliceImaginary(t) == (3 * CosMicro(t * 700)) \div 10

NudgeRealImSwapped(s, e) ==
    CASE e = "K_LEFT" -> s - SliceStep
      [] e = "K_RIGHT" -> s + SliceStep
      [] OTHER -> s

\* lines 352-359: the slice parameters after an arrow key
NudgeRealIm(s, e) ==
    CASE e = "K_UP" -> s + SliceStep
      [] e = "K_DOWN" -> s - SliceStep
      [] OTHER -> s

NudgeImaginary(s, e) ==
    CASE e = "K_LEFT" -> s - SliceStep
      [] e = "K_RIGHT" -> s + SliceStep
      [] OTHER -> s

\* what the frame rendered from the current state shows (lines 368-380)
CSRendered ==
    [ view    |-> view_mode,
      slices  |-> IF view_mode = "FOUR_D_SLICES"
                  THEN <<slice_real_im, slice_imaginary>> ELSE << >>,
      lattice |-> IF view_mode = "MULTI_FIELD"
                  THEN LET pts == FiniteFieldPoints(radius)
                       IN  [i \in 1..Len(pts) |->
                              cs_to_screen(Fx(pts[i][1] * LatticeSpacing),
                                           Fx(pts[i][2] * LatticeSpacing),
                                           -250, 150)]
                  ELSE << >> ]

\* CrossSectionViz.__init__, lines 56-69
CSConstructed ==
    /\ cs_running = TRUE
    /\ cs_frame_no = 0
    /\ cs_n_events = 0
    /\ cs_event = "none"
    /\ cs_nudged = 0
    /\ view_mode = "REAL_PLANE"
    /\ cs_time = 0
    /\ show_projections = TRUE
    /\ show_hidden_dims = TRUE
    /\ cs_animate = TRUE
    /\ slice_real_im = 0
    /\ slice_imaginary = 0
    /\ radius = DefaultRadius

CSInit == cs_pc = "tick" /\ CSConstructed

\* the program is not running
CSIdle == cs_pc = "idle" /\ CSConstructed

TickRealImKept(s, t, anim) == s

\* run, lines 335-336: slice_real_im after the advance step at time t
TickRealIm(s, t, anim) == IF anim THEN SliceRealIm(t) ELSE s

\* run, lines 335-337: slice_imaginary after the advance step at time t
TickImaginary(s, t, anim) == IF anim THEN SliceImaginary(t) ELSE s

\* run, lines 344-351: the view mode after an event
ViewAfterKey(v, e) ==
    CASE e = "K_1" -> "REAL_PLANE"
      [] e = "K_2" -> "COMPLEX_PROJECTION"
      [] e = "K_3" -> "FOUR_D_SLICES"
      [] e = "K_4" -> "MULTI_FIELD"
      [] OTHER -> v

\* run, lines 331-337
CSTick ==
    /\ cs_pc = "tick"
    /\ cs_frame_no < CSMaxFrames
    /\ \E dt \in TickMillis :
          /\ cs_time' = cs_time + dt
          /\ slice_real_im' = TickRealIm(slice_real_im, cs_time + dt,
                                          cs_animate)
          /\ slice_imaginary' = TickImaginary(slice_imaginary, cs_time + dt,
                                              cs_animate)
    /\ cs_frame_no' = cs_frame_no + 1
    /\ cs_pc' = "events"
    /\ UNCHANGED << cs_running, cs_n_events, cs_event, cs_nudged, view_mode,
                    show_projections, show_hidden_dims, cs_animate, radius >>
    /\ UNCHANGED << gvars, fnvars >>

\* run, lines 340-365: one iteration of the event loop
CSHandleEvent ==
    /\ cs_pc = "events"
    /\ cs_n_events < MaxEvents
    /\ cs_n_events' = cs_n_events + 1
    /\ \E e \in CSEventKinds :
          /\ Abs(NudgeRealIm(slice_real_im, e)) <= SliceCap
          /\ Abs(NudgeImaginary(slice_imaginary, e)) <= SliceCap
          /\ cs_event' = e
          /\ cs_running' = IF e = "QUIT" THEN FALSE ELSE cs_running
          /\ view_mode' = ViewAfterKey(view_mode, e)
          /\ cs_nudged' = IF e \in {"K_UP", "K_DOWN", "K_LEFT", "K_RIGHT"}
                           THEN 2 ELSE cs_nudged
          /\ slice_real_im' = NudgeRealIm(slice_real_im, e)
          /\ slice_imaginary' = NudgeImaginary(slice_imaginary, e)
          /\ show_projections' = IF e = "K_p" THEN ~show_projections
                                              ELSE show_projections
          /\ show_hidden_dims' = IF e = "K_h" THEN ~show_hidden_dims
                                              ELSE show_hidden_dims
          /\ cs_animate' = IF e = "K_a" THEN ~cs_animate ELSE cs_animate
    /\ UNCHANGED << cs_pc, cs_frame_no, cs_time, radius >>
    /\ UNCHANGED << gvars, fnvars >>

\* run, line 340: the event loop runs out of polled events
CSEndEvents ==
    /\ cs_pc = "events"
    /\ cs_pc' = "draw"
    /\ cs_n_events' = 0
    /\ cs_event' = "none"
    /\ UNCHANGED << cs_running, cs_frame_no, cs_nudged, view_mode, cs_time,
                    show_projections, show_hidden_dims, cs_animate,
                    slice_real_im, slice_imaginary, radius >>
    /\ UNCHANGED << gvars, fnvars >>

\* run, lines 368-383: render and present the frame, then loop or exit
CSDraw ==
    /\ cs_pc = "draw"
    /\ cs_pc' = IF cs_running THEN "tick" ELSE "done"
    /\ cs_nudged' = IF cs_nudged > 0 THEN cs_nudged - 1 ELSE 0
    /\ UNCHANGED << cs_running, cs_frame_no, cs_n_events, cs_event,
                    view_mode, cs_time, show_projections, show_hidden_dims,
                    cs_animate, slice_real_im, slice_imaginary, radius >>
    /\ UNCHANGED << gvars, fnvars >>

CSNext == CSTick \/ CSHandleEvent \/ CSEndEvents \/ CSDraw

InitCS == GIdle /\ CSInit /\ FnIdle

SpecCS == InitCS /\ [][CSNext]_vars

\* ------------------------------------------------- pure-function harness
CoordSamples == {k * CoordStep : k \in -MaxCoordIdx..MaxCoordIdx}

\* to_screen followed by to_math on an integer point
MapperInit ==
    /\ fn_pc = "start"
    /\ fn_in \in CoordSamples \X CoordSamples
    /\ fn_out = << >>

ApplyToScreen ==
    /\ fn_pc = "start"
    /\ fn_out' = to_screen(Fx(fn_in[1]), Fx(fn_in[2]))
    /\ fn_pc' = "screen"
    /\ UNCHANGED << fn_in, gvars, csvars >>

ApplyToMath ==
    /\ fn_pc = "screen"
    /\ fn_out' = to_math(fn_out[1], fn_out[2])
    /\ fn_pc' = "math"
    /\ UNCHANGED << fn_in, gvars, csvars >>

MapperNext == ApplyToScreen \/ ApplyToMath

InitMapper == GIdle /\ CSIdle /\ MapperInit

SpecMapper == InitMapper /\ [][MapperNext]_vars

\* the finite-field sampler on a radius
SamplerInit ==
    /\ fn_pc = "start"
    /\ fn_in \in 0..MaxRadius
    /\ fn_out = << >>

ApplySampler ==
    /\ fn_pc = "start"
    /\ fn_out' = FiniteFieldPoints(fn_in)
    /\ fn_pc' = "sampled"
    /\ UNCHANGED << fn_in, gvars, csvars >>

InitSampler == GIdle /\ CSIdle /\ SamplerInit

SamplerNext == ApplySampler

SpecSampler == InitSampler /\ [][SamplerNext]_vars

\* the perpendicular bisector on two integer points
BisectorInit ==
    /\ fn_pc = "start"
    /\ fn_in \in (CoordSamples \X CoordSamples) \X (CoordSamples \X CoordSamples)
    /\ fn_out = << >>

ApplyBisector ==
    /\ fn_pc = "start"
    /\ fn_out' = PerpSegment(fn_in[1], fn_in[2])
    /\ fn_pc' = "bisected"
    /\ UNCHANGED << fn_in, gvars, csvars >>

InitBisector == GIdle /\ CSIdle /\ BisectorInit

BisectorNext == ApplyBisector

SpecBisector == InitBisector /\ [][BisectorNext]_vars


Init == GInit /\ CSIdle /\ FnIdle

Next == Tick \/ HandleEvent \/ EndEvents \/ HandleMouse \/ Draw

Spec == Init /\ [][Next]_vars

\* either of the two standalone programs is started (lines 336-338 of
\* ele.py, lines 386-388 of the other file)
InitPrograms == Init \/ InitCS

NextPrograms == Next \/ CSNext

SpecPrograms == InitPrograms /\ [][NextPrograms]_vars

\* ------------------------------------------------------------- properties
TypeOK ==
    /\ pc \in {"tick", "events", "mouse", "draw", "done"}
    /\ mode \in GeometryMode
    /\ dragging \in Names \cup {None}

\* the dict as a mapping from names to coordinate pairs
PointsAsMap(d) == [n \in DictKeySet(d) |-> DictGet(d, n)]

ExpectedDefaults ==
    [n \in Names |-> CASE n = "A" -> <<-120, -80>>
                       [] n = "B" -> <<150, 120>>
                       [] n = "C" -> <<-80, 150>>
                       [] n = "D" -> <<120, -120>>]

PointerMinusOffset == <<mouse_pos[1] - drag_offset[1],
                        mouse_pos[2] - drag_offset[2]>>

\* C1 as stated: in every frame in which the reset command was processed,
\* the points the frame is rendered from are exactly the defaults.
C1_ResetRendersDefaults ==
    (pc = "draw" /\ reset_seen) => PointsAsMap(points) = ExpectedDefaults

\* C1 amended: once the reset command is processed in a frame the points are
\* exactly the defaults, and they still are when the frame is rendered unless
\* handle_mouse continued a drag in that frame; then only the dragged point
\* differs, and it sits at the pointer position minus the drag offset.
C1_ResetRestoresUnlessDragged ==
    reset_seen =>
        \/ PointsAsMap(points) = ExpectedDefaults
        \/ /\ pc = "draw"
           /\ mouse_branch = "update"
           /\ DictKeySet(points) = Names
           /\ \A n \in Names \ {dragging} :
                 DictGet(points, n) = ExpectedDefaults[n]
           /\ ScreenOf(DictGet(points, dragging)) = PointerMinusOffset

C1_Witness ==
    /\ pc = "draw"
    /\ reset_seen
    /\ mouse_branch = "update"
    /\ PointsAsMap(points) # ExpectedDefaults

\* C2: a call of handle_mouse changes the coordinates of no point other than
\* the one named by dragging when it is called.
C2_DragMovesOnlyDragged ==
    [][pc = "mouse" =>
          \A n \in Names :
             n # dragging => DictGet(points', n) = DictGet(points, n)]_vars

C2_Witness ==
    /\ pc = "draw"
    /\ mouse_branch = "update"
    /\ ~reset_seen
    /\ DictGet(points, dragging) # ExpectedDefaults[dragging]

\* C3 as stated: a tick taken while animation is off leaves the pulse phase,
\* the rotation angle and the shear factor of the transformed triangle at
\* the values of the previous frame.
C3_FrozenWhileNotAnimating ==
    [][(pc = "tick" /\ ~animate) =>
          /\ pulse_phase' = pulse_phase
          /\ rotation_angle' = rotation_angle
          /\ ShearFactor(time') = ShearFactor(time)]_vars

\* the event handled by a step of the CrossSectionViz event loop
CSHandled(e) ==
    cs_pc = "events" /\ cs_n_events' = cs_n_events + 1 /\ cs_event' = e

CSArrowKeys == {"K_UP", "K_DOWN", "K_LEFT", "K_RIGHT"}

\* C4: with animation off, a step that handles no arrow key leaves both slice
\* parameters unchanged, and an arrow key changes exactly one of them by 0.1
\* (Up/Down slice_real_im +/-, Right/Left slice_imaginary +/-).
C4_SliceNudges ==
    [][~cs_animate =>
          /\ CSHandled("K_UP") =>
                /\ slice_real_im' = slice_real_im + 100000
                /\ slice_imaginary' = slice_imaginary
          /\ CSHandled("K_DOWN") =>
                /\ slice_real_im' = slice_real_im - 100000
                /\ slice_imaginary' = slice_imaginary
          /\ CSHandled("K_RIGHT") =>
                /\ slice_imaginary' = slice_imaginary + 100000
                /\ slice_real_im' = slice_real_im
          /\ CSHandled("K_LEFT") =>
                /\ slice_imaginary' = slice_imaginary - 100000
                /\ slice_real_im' = slice_real_im
          /\ (~ \E e \in CSArrowKeys : CSHandled(e)) =>
                /\ slice_real_im' = slice_real_im
                /\ slice_imaginary' = slice_imaginary]_vars

C4_Witness ==
    /\ ~cs_animate
    /\ cs_pc = "events"
    /\ cs_frame_no = 2
    /\ cs_event = "K_RIGHT"
    /\ slice_real_im # 0

\* C5: to_math undoes to_screen on every point with integer coordinates.
C5_RoundTrip == fn_pc = "math" => fn_out = fn_in

C5_Witness ==
    /\ fn_pc = "math"
    /\ fn_in[1] < -(WIDTH \div 2)
    /\ fn_in[2] > HEIGHT \div 2
    /\ fn_out = fn_in

NameRank == [n \in Names |-> CASE n = "A" -> 1 [] n = "B" -> 2
                               [] n = "C" -> 3 [] n = "D" -> 4]

HitNames(d, m) == {n \in DictKeySet(d) : InHit(DictGet(d, n), m)}

\* C6: dragging names at most one point; a drag that begins selects, among
\* the points within the hit radius of the pointer, the first in the order
\* A, B, C, D; and the dict keeps that order through resets and drags.
C6_FirstInOrderWins ==
    [][/\ dragging' \in Names \cup {None}
       /\ DictKeys(points) = <<"A", "B", "C", "D">>
       /\ DictKeys(points') = <<"A", "B", "C", "D">>
       /\ (pc = "mouse" /\ dragging = None /\ dragging' # None) =>
             /\ dragging' \in HitNames(points, mouse_pos')
             /\ \A n \in HitNames(points, mouse_pos') :
                   NameRank[dragging'] <= NameRank[n]]_vars

C6_Witness ==
    /\ pc = "draw"
    /\ mouse_branch = "start"
    /\ Cardinality(HitNames(points, mouse_pos)) >= 2
    /\ dragging = "A"

\* C7: the offset captured when a drag starts does not change while the drag
\* lasts, and at the end of every later frame of the drag the dragged point
\* is on screen at the pointer position minus that offset.
C7_DragFollowsPointer ==
    [][/\ (dragging # None /\ dragging' # None) =>
             (dragging' = dragging /\ drag_offset' = drag_offset)
       /\ (pc' = "draw" /\ mouse_branch' = "update") =>
             ScreenOf(DictGet(points', dragging'))
                = <<mouse_pos'[1] - drag_offset'[1],
                    mouse_pos'[2] - drag_offset'[2]>>]_vars

C7_Witness ==
    /\ pc = "draw"
    /\ mouse_branch = "update"
    /\ drag_offset = <<5, 3>>
    /\ mouse_pos = <<600, 180>>
    /\ ScreenOf(DictGet(points, dragging)) = <<595, 177>>

\* C8: at the end of a frame in which the button is released nothing is
\* dragged, and while nothing is dragged the coordinates change only by the
\* reset command.
C8_ReleaseEndsDrag ==
    [][/\ (pc' = "draw" /\ ~mouse_pressed') => dragging' = None
       /\ (dragging = None /\ points' # points) =>
             /\ pc = "events"
             /\ reset_seen'
             /\ PointsAsMap(points') = ExpectedDefaults]_vars

C8_Witness ==
    /\ pc = "draw"
    /\ mouse_branch = "release"
    /\ dragging = None
    /\ PointsAsMap(points) # ExpectedDefaults

\* C9: the sampler emits exactly the lattice points (x, y), x and y in
\* -2..2, with (x*x + y*y) mod 11 = (radius // 10) mod 11, each once.
C9_SamplerExact ==
    fn_pc = "sampled" =>
        /\ {fn_out[i] : i \in 1..Len(fn_out)}
              = {p \in (-2..2) \X (-2..2) :
                    (p[1] * p[1] + p[2] * p[2]) % 11 = (fn_in \div 10) % 11}
        /\ \A i, j \in 1..Len(fn_out) : fn_out[i] = fn_out[j] => i = j

C9_Witness ==
    /\ fn_pc = "sampled"
    /\ fn_in = 80
    /\ Len(fn_out) = 4
    /\ <<2, -2>> \in {fn_out[i] : i \in 1..Len(fn_out)}

\* C10: for A # B the bisector segment is emitted, its endpoints are
\* symmetric about the midpoint of A and B, and its direction is orthogonal
\* to B - A (dot product 0 up to the rounding of the two components).
C10_BisectorOrthogonal ==
    (fn_pc = "bisected" /\ fn_in[1] # fn_in[2]) =>
        LET A == fn_in[1]
            B == fn_in[2]
            dx == B[1] - A[1]
            dy == B[2] - A[2]
        IN  /\ fn_out # << >>
            /\ fn_out[1] # fn_out[2]
            /\ fn_out[1][1] + fn_out[2][1] = (A[1] + B[1]) * Scale
            /\ fn_out[1][2] + fn_out[2][2] = (A[2] + B[2]) * Scale
            /\ Abs((fn_out[1][1] - fn_out[2][1]) * dx
                     + (fn_out[1][2] - fn_out[2][2]) * dy)
                  <= 2 * (Abs(dx) + Abs(dy))

C10_Witness ==
    /\ fn_pc = "bisected"
    /\ fn_in[1] = <<-CoordStep, 0>>
    /\ fn_in[2] = <<CoordStep, 2 * CoordStep>>
    /\ fn_out # << >>

\* the event handled by a step of the GeometryViz event loop
GHandled(e) == pc = "events" /\ n_events' = n_events + 1 /\ event' = e

\* C11: the loop flag falls only when QUIT is handled and never rises again;
\* once it has fallen the frame runs on through its remaining stages and the
\* draw stage leads to termination instead of another tick; a loop whose
\* flag is up never terminates.
C11_QuitTerminates ==
    [][/\ (running /\ ~running') => GHandled("QUIT")
       /\ GHandled("QUIT") => ~running'
       /\ (~running /\ pc # "idle") =>
             /\ ~running'
             /\ frame_no' = frame_no
             /\ time' = time
             /\ pc = "events" => pc' \in {"events", "mouse"}
             /\ pc = "mouse" => pc' = "draw"
             /\ pc = "draw" => pc' = "done"
       /\ (pc # "done" /\ pc' = "done") => (pc = "draw" /\ ~running)
       /\ pc = "done" => UNCHANGED gvars
       /\ (cs_running /\ ~cs_running') => CSHandled("QUIT")
       /\ CSHandled("QUIT") => ~cs_running'
       /\ ~cs_running =>
             /\ ~cs_running'
             /\ cs_frame_no' = cs_frame_no
             /\ cs_time' = cs_time
             /\ cs_pc = "events" => cs_pc' \in {"events", "draw"}
             /\ cs_pc = "draw" => cs_pc' = "done"
       /\ (cs_pc # "done" /\ cs_pc' = "done") =>
             (cs_pc = "draw" /\ ~cs_running)
       /\ cs_pc = "done" => UNCHANGED csvars]_vars

C11_Witness ==
    /\ pc = "done"
    /\ ~running
    /\ dragging # None
    /\ animate
    /\ frame_no < MaxFrames

\* C12: the mode is always one of the enumerated variants, it changes only
\* in a step that handles the key of the new mode, and from every mode the
\* key of each mode leads to that mode.
C12_ModeByKeyOnly ==
    [][/\ mode \in {"EUCLIDEAN", "AFFINE", "BOTH"}
       /\ mode' \in {"EUCLIDEAN", "AFFINE", "BOTH"}
       /\ mode' # mode =>
             \/ GHandled("K_e") /\ mode' = "EUCLIDEAN"
             \/ GHandled("K_a") /\ mode' = "AFFINE"
             \/ GHandled("K_b") /\ mode' = "BOTH"
       /\ ModeAfterKey(mode, "K_e") = "EUCLIDEAN"
       /\ ModeAfterKey(mode, "K_a") = "AFFINE"
       /\ ModeAfterKey(mode, "K_b") = "BOTH"
       /\ view_mode \in {"REAL_PLANE", "COMPLEX_PROJECTION",
                         "FOUR_D_SLICES", "MULTI_FIELD"}
       /\ view_mode' \in {"REAL_PLANE", "COMPLEX_PROJECTION",
                          "FOUR_D_SLICES", "MULTI_FIELD"}
       /\ view_mode' # view_mode =>
             \/ CSHandled("K_1") /\ view_mode' = "REAL_PLANE"
             \/ CSHandled("K_2") /\ view_mode' = "COMPLEX_PROJECTION"
             \/ CSHandled("K_3") /\ view_mode' = "FOUR_D_SLICES"
             \/ CSHandled("K_4") /\ view_mode' = "MULTI_FIELD"
       /\ ViewAfterKey(view_mode, "K_1") = "REAL_PLANE"
       /\ ViewAfterKey(view_mode, "K_2") = "COMPLEX_PROJECTION"
       /\ ViewAfterKey(view_mode, "K_3") = "FOUR_D_SLICES"
       /\ ViewAfterKey(view_mode, "K_4") = "MULTI_FIELD"]_vars

C12_Witness ==
    /\ pc = "events"
    /\ event = "K_e"
    /\ mode = "EUCLIDEAN"
    /\ dragging # None
    /\ ~animate

\* C13: a tick computes the elapsed time and, only if animating, advances
\* the time-parameterized state by it; then the events are handled, then
\* (first visualization) the mouse, then the frame is rendered from the
\* state these left; events never advance the animation, so a toggle acts
\* on the advance step of the next tick.
C13_StepOrder ==
    [][/\ pc = "tick" =>
             /\ pc' = "events"
             /\ time' - time \in TickMillis
             /\ pulse_phase' = IF animate
                               THEN pulse_phase + 3 * (time' - time)
                               ELSE pulse_phase
             /\ rotation_angle' = IF animate
                                  THEN rotation_angle + (time' - time)
                                  ELSE rotation_angle
             /\ UNCHANGED << mode, show_grid, animate, points, dragging,
                             drag_offset >>
       /\ pc = "events" =>
             /\ pc' \in {"events", "mouse"}
             /\ UNCHANGED << time, pulse_phase, rotation_angle, dragging,
                             drag_offset >>
       /\ pc = "mouse" =>
             /\ pc' = "draw"
             /\ UNCHANGED << time, pulse_phase, rotation_angle, mode,
                             show_grid, animate >>
       /\ pc = "draw" =>
             /\ pc' \in {"tick", "done"}
             /\ UNCHANGED << time, pulse_phase, rotation_angle, mode,
                             show_grid, animate, points, dragging,
                             drag_offset >>
       /\ cs_pc = "tick" =>
             /\ cs_pc' = "events"
             /\ cs_time' - cs_time \in TickMillis
             /\ cs_animate =>
                   /\ slice_real_im' = (3 * SinMicro(cs_time' * 500)) \div 10
                   /\ slice_imaginary' = (3 * CosMicro(cs_time' * 700)) \div 10
             /\ ~cs_animate => UNCHANGED << slice_real_im, slice_imaginary >>
             /\ UNCHANGED << view_mode, cs_animate, show_projections,
                             show_hidden_dims >>
       /\ cs_pc = "events" =>
             /\ cs_pc' \in {"events", "draw"}
             /\ cs_time' = cs_time
       /\ cs_pc = "draw" =>
             /\ cs_pc' \in {"tick", "done"}
             /\ UNCHANGED << view_mode, cs_time, cs_animate, slice_real_im,
                             slice_imaginary, show_projections,
                             show_hidden_dims, radius >>]_vars

C13_Witness ==
    /\ pc = "events"
    /\ n_events = 0
    /\ frame_no = 2
    /\ ~animate
    /\ pulse_phase \in {48, 51}
    /\ time > 17

\* C14: when A and B coincide the frame is rendered without the bisector
\* (the length is 0 and nothing is divided by it) and the loop goes on; when
\* they differ and the mode shows Euclidean elements the bisector is drawn.
C14_CoincidentSkipsBisector ==
    pc = "draw" =>
        LET A == DictGet(points, "A")
            B == DictGet(points, "B")
        IN  /\ A = B => (PerpLength(A, B) = 0 /\ Rendered.perp = << >>)
            /\ (A # B /\ mode # "AFFINE") =>
                  (PerpLength(A, B) > 0 /\ Len(Rendered.perp) = 2)
            /\ ENABLED Draw

C14_Witness ==
    /\ pc = "draw"
    /\ DictGet(points, "A") = DictGet(points, "B")
    /\ mode # "AFFINE"
    /\ running
    /\ Rendered.perp = << >>

\* C15: dragging is None or a key of the points dict, whose keys are always
\* exactly A, B, C, D; the reset command leaves dragging as it is.
C15_DraggingNamesAPoint ==
    [][/\ DictKeySet(points) = {"A", "B", "C", "D"}
       /\ Len(points) = 4
       /\ dragging = None \/ dragging \in DictKeySet(points)
       /\ DictKeySet(points') = {"A", "B", "C", "D"}
       /\ Len(points') = 4
       /\ dragging' = None \/ dragging' \in DictKeySet(points')
       /\ GHandled("K_r") => dragging' = dragging]_vars

C15_Witness ==
    /\ pc = "mouse"
    /\ reset_seen
    /\ dragging = "B"
    /\ PointsAsMap(points) = ExpectedDefaults

\* C16: with animation on, a tick overwrites both slice parameters with the
\* values derived from the new time, whatever the arrow keys made of them in
\* the frame before; they are within [-0.3, 0.3] when event processing
\* starts, and later in the frame only arrow keys change them.
C16_NudgeOverwritten ==
    [][/\ (cs_pc = "tick" /\ cs_animate) =>
             /\ slice_real_im' = (3 * SinMicro(cs_time' * 500)) \div 10
             /\ slice_imaginary' = (3 * CosMicro(cs_time' * 700)) \div 10
       /\ (cs_pc' = "events" /\ cs_n_events' = 0 /\ cs_animate') =>
             /\ slice_real_im' = (3 * SinMicro(cs_time' * 500)) \div 10
             /\ slice_imaginary' = (3 * CosMicro(cs_time' * 700)) \div 10
             /\ slice_real_im' >= -300000 /\ slice_real_im' <= 300000
             /\ slice_imaginary' >= -300000 /\ slice_imaginary' <= 300000
       /\ (cs_pc # "tick" /\ ~ \E e \in CSArrowKeys : CSHandled(e)) =>
             UNCHANGED << slice_real_im, slice_imaginary >>]_vars

C16_Witness ==
    /\ cs_pc = "events"
    /\ cs_n_events = 0
    /\ cs_frame_no = 2
    /\ cs_animate
    /\ cs_nudged = 1
    /\ slice_real_im = (3 * SinMicro(cs_time * 500)) \div 10

====
